---- MODULE Spec2Model ----
(***************************************************************************)
(* A model of .ycm_extra_conf.py (erisproject/eris): the module-level      *)
(* flag list, MakeRelativePathsInFlagsAbsolute, LoadSystemIncludes and     *)
(* FlagsForFile.                                                           *)
(*                                                                         *)
(* A Python string is a sequence of one-character strings, so that         *)
(* startswith, slicing, concatenation and os.path.join are computed and    *)
(* not assumed.  A Python list of strings is a sequence of such sequences. *)
(***************************************************************************)
EXTENDS Integers, Sequences, FiniteSets, TLC

(***************************************************************************)
(* Bounds of the model.                                                    *)
(***************************************************************************)
\* longest flag list handed directly to MakeRelativePathsInFlagsAbsolute
MaxLen == 3
\* number of FlagsForFile calls the host makes (possibly interleaved)
NumCalls == 2

Calls == 1..NumCalls

(***************************************************************************)
(* String literals of the source.                                          *)
(***************************************************************************)
Slash == <<"/">>
Empty == <<>>

\* line 22: path_flags = [ '-isystem', '-I', '-iquote', '--sysroot=' ]
s_isystem == <<"-","i","s","y","s","t","e","m">>
s_I       == <<"-","I">>
s_iquote  == <<"-","i","q","u","o","t","e">>
s_sysroot == <<"-","-","s","y","s","r","o","o","t","=">>
path_flags == << s_isystem, s_I, s_iquote, s_sysroot >>

\* lines 5-12: the module-level list
flags_literal ==
  << <<"-","W","a","l","l">>,
     <<"-","W","e","x","t","r","a">>,
     <<"-","s","t","d","=","c","+","+","1","1">>,
     s_I, <<".">>,
     s_I, <<"/","u","s","r","/","i","n","c","l","u","d","e","/","e","i","g","e","n","3">>,
     <<"-","D","E","R","I","S","_","T","E","S","T","S">> >>

(***************************************************************************)
(* str.startswith and os.path.join (posixpath, two arguments).             *)
(***************************************************************************)
StartsWith(s, p) == Len(s) >= Len(p) /\ SubSeq(s, 1, Len(p)) = p

EndsWith(s, p) == Len(s) >= Len(p) /\ SubSeq(s, Len(s) - Len(p) + 1, Len(s)) = p

PathJoin(a, p) ==
  IF StartsWith(p, Slash) THEN p
  ELSE IF a = Empty \/ EndsWith(a, Slash) THEN a \o p
  ELSE a \o Slash \o p

(***************************************************************************)
(* MakeRelativePathsInFlagsAbsolute, one loop iteration (lines 24-39).     *)
(***************************************************************************)
\* a plausible slip: the entry after a bare path flag is left alone
AfterMakeNextNever(flag, mna, wd) == flag

\* a plausible slip: an empty entry after a bare path flag is not joined
AfterMakeNextSkipEmpty(flag, mna, wd) ==
  IF mna /\ flag # Empty /\ ~StartsWith(flag, Slash) THEN PathJoin(wd, flag) ELSE flag

\* lines 24, 26-29: new_flag after the make_next_absolute block
AfterMakeNext(flag, mna, wd) ==
  IF mna /\ ~StartsWith(flag, Slash) THEN PathJoin(wd, flag) ELSE flag

\* a plausible slip: the attached form (prefix followed by the path) is not handled
ScanPathFlagsNoAttached(k, flag, new_flag, wd) ==
  [ new_flag |-> new_flag,
    make_next_absolute |-> \E j \in k..Len(path_flags) : flag = path_flags[j] ]

\* lines 31-39: the scan of path_flags from index k, with its two breaks.
\* make_next_absolute is False when the scan starts (line 27 or line 21/33's
\* last clearing), so it is True afterwards iff line 33 ran.
RECURSIVE ScanPathFlags(_, _, _, _)
ScanPathFlags(k, flag, new_flag, wd) ==
  IF k > Len(path_flags)
  THEN [ new_flag |-> new_flag, make_next_absolute |-> FALSE ]
  ELSE LET path_flag == path_flags[k] IN
       IF flag = path_flag
       THEN [ new_flag |-> new_flag, make_next_absolute |-> TRUE ]
       ELSE IF StartsWith(flag, path_flag)
       THEN LET path == SubSeq(flag, Len(path_flag) + 1, Len(flag)) IN
            [ new_flag |-> path_flag \o PathJoin(wd, path),
              make_next_absolute |-> FALSE ]
       ELSE ScanPathFlags(k + 1, flag, new_flag, wd)

\* lines 24-39: the loop body before the append
LoopBody(flag, mna, wd) == ScanPathFlags(1, flag, AfterMakeNext(flag, mna, wd), wd)

\* a plausible slip: the rewritten entry is stored back into the list passed in
ListAfterBodyInPlace(fl, idx, new_flag) == [ fl EXCEPT ![idx] = new_flag ]

\* lines 23-42: what the loop body does to the list it iterates over: nothing
\* (it only rebinds the locals flag, new_flag, path and appends to new_flags)
ListAfterBody(fl, idx, new_flag) == fl

\* lines 17-43 as a whole, for a list that nobody changes meanwhile
RECURSIVE AbsFrom(_, _, _, _, _)
AbsFrom(fl, idx, mna, acc, wd) ==
  IF idx > Len(fl) THEN acc
  ELSE LET b == LoopBody(fl[idx], mna, wd) IN
       AbsFrom(fl, idx + 1, b.make_next_absolute,
               IF b.new_flag # Empty THEN Append(acc, b.new_flag) ELSE acc, wd)

MakeRelativePathsInFlagsAbsolute(fl, wd) ==
  IF wd = Empty THEN fl ELSE AbsFrom(fl, 1, FALSE, <<>>, wd)

(***************************************************************************)
(* Outcomes.  A call either returns a value or raises an exception that    *)
(* nothing in the module catches.                                          *)
(***************************************************************************)
Return(v) == [ kind |-> "return", exc |-> "", value |-> v ]
Raise(e)  == [ kind |-> "raise", exc |-> e, value |-> <<>> ]

(***************************************************************************)
(* The names bound in the module's namespace once it is imported:          *)
(* lines 1-3 (import os, re, ycm_core), 5 (flags) and the four defs.       *)
(* No line binds subprocess.                                               *)
(***************************************************************************)
ModuleGlobals ==
  { "os", "re", "ycm_core", "flags", "DirectoryOfThisScript",
    "MakeRelativePathsInFlagsAbsolute", "LoadSystemIncludes", "FlagsForFile" }

(***************************************************************************)
(* DirectoryOfThisScript (lines 14-15): posixpath.dirname of the absolute  *)
(* path of the script.                                                     *)
(***************************************************************************)
\* the 1-based index of the last "/" of an absolute path (str.rfind + 1)
LastSlash(p) == CHOOSE k \in 1..Len(p) : p[k] = "/" /\ \A j \in (k+1)..Len(p) : p[j] # "/"

RECURSIVE RStripSlash(_)
RStripSlash(s) == IF s # Empty /\ s[Len(s)] = "/" THEN RStripSlash(SubSeq(s, 1, Len(s) - 1)) ELSE s

Dirname(p) ==
  LET head == SubSeq(p, 1, LastSlash(p)) IN
  IF RStripSlash(head) = Empty THEN head ELSE RStripSlash(head)

DirectoryOfThisScript(abspath) == Dirname(abspath)

(***************************************************************************)
(* LoadSystemIncludes (lines 46-57).                                       *)
(***************************************************************************)
\* line 47: the pattern.  Its three dots are unescaped, so each matches any
\* character (re.DOTALL: a line break too).  "ANY" stands for such a dot.
re_start ==
  <<"#","i","n","c","l","u","d","e"," ","<","ANY","ANY","ANY",">"," ","s","e","a","r","c","h",
    " ","s","t","a","r","t","s"," ","h","e","r","e",":">>
re_end == <<"E","n","d"," ","o","f"," ","s","e","a","r","c","h"," ","l","i","s","t">>
\* line 54
s_framework ==
  <<"(","f","r","a","m","e","w","o","r","k"," ","d","i","r","e","c","t","o","r","y",")">>

MatchAt(text, pat, pos) ==
  /\ pos + Len(pat) - 1 <= Len(text)
  /\ \A j \in 1..Len(pat) : pat[j] = "ANY" \/ text[pos + j - 1] = pat[j]

\* the least position >= pos where pat matches, 0 when there is none
FindFrom(text, pat, pos) ==
  LET hits == { p \in pos..Len(text) : MatchAt(text, pat, p) } IN
  IF hits = {} THEN 0 ELSE CHOOSE p \in hits : \A q \in hits : p <= q

\* str.find(sub) >= 0
Contains(s, sub) == FindFrom(s, sub, 1) # 0

\* line 52: re.search(regex, output): the leftmost start, then the shortest
\* 'list' group that an "End of search list" follows.  None when either is absent.
ReSearch(output) ==
  LET s == FindFrom(output, re_start, 1) IN
  IF s = 0 THEN [ matched |-> FALSE, list |-> Empty ]
  ELSE LET from == s + Len(re_start)
           e == FindFrom(output, re_end, from) IN
       IF e = 0 THEN [ matched |-> FALSE, list |-> Empty ]
       ELSE [ matched |-> TRUE, list |-> SubSeq(output, from, e - 1) ]

\* line 52: str.split('\n')
RECURSIVE SplitLines(_)
SplitLines(s) ==
  LET k == FindFrom(s, <<"\n">>, 1) IN
  IF k = 0 THEN << s >>
  ELSE << SubSeq(s, 1, k - 1) >> \o SplitLines(SubSeq(s, k + 1, Len(s)))

\* line 53: str.strip()
Whitespace == { " ", "\t", "\n", "\r", "\f" }

RECURSIVE Strip(_)
Strip(s) ==
  IF s = Empty THEN s
  ELSE IF s[1] \in Whitespace THEN Strip(Tail(s))
  ELSE IF s[Len(s)] \in Whitespace THEN Strip(SubSeq(s, 1, Len(s) - 1))
  ELSE s

\* lines 51-56: the loop over the lines
RECURSIVE IncludesOf(_)
IncludesOf(lines) ==
  IF lines = <<>> THEN <<>>
  ELSE LET p == Strip(Head(lines)) IN
       (IF Len(p) > 0 /\ ~Contains(p, s_framework) THEN << s_isystem, p >> ELSE <<>>)
       \o IncludesOf(Tail(lines))

\* lines 46-57.  world is what running clang would give: found (the binary can be
\* started), out and err (its two streams), returncode.  The code never reads
\* returncode.  The name subprocess is looked up in the module's namespace at
\* line 48, after re.compile (line 47; re is bound).
LoadSystemIncludes(globals, world) ==
  IF "subprocess" \notin globals THEN Raise("NameError")
  ELSE IF ~world.found THEN Raise("OSError")
  ELSE LET output == world.out \o world.err
           m == ReSearch(output) IN
       IF ~m.matched THEN Raise("AttributeError")
       ELSE Return(IncludesOf(SplitLines(m.list)))

(***************************************************************************)
(* FlagsForFile (lines 59-64): the value of the call once both operands of *)
(* the + of line 60 are evaluated.  filename and kwargs are not read.      *)
(***************************************************************************)
Result(kind, exc, fl, cache) == [ kind |-> kind, exc |-> exc, flags |-> fl, do_cache |-> cache ]

\* a plausible slip: a failed probe falls back to the static flags
FlagsForFileResultFallback(filename, kwargs, abs_flags, includes) ==
  IF includes.kind = "raise"
  THEN Result("return", "", abs_flags, TRUE)
  ELSE Result("return", "", abs_flags \o includes.value, TRUE)

\* a plausible slip: header files are answered without the probe
FlagsForFileResultByName(filename, kwargs, abs_flags, includes) ==
  IF filename = "eris/Simulation.hpp"
  THEN Result("return", "", abs_flags, FALSE)
  ELSE IF includes.kind = "raise"
  THEN Result("raise", includes.exc, <<>>, FALSE)
  ELSE Result("return", "", abs_flags \o includes.value, TRUE)

FlagsForFileResult(filename, kwargs, abs_flags, includes) ==
  IF includes.kind = "raise"
  THEN Result("raise", includes.exc, <<>>, FALSE)
  ELSE Result("return", "", abs_flags \o includes.value, TRUE)

\* lines 59-64 as a whole, for a call that runs alone
FlagsForFile(filename, kwargs, fl, abspath, globals, world) ==
  FlagsForFileResult(filename, kwargs,
                     MakeRelativePathsInFlagsAbsolute(fl, DirectoryOfThisScript(abspath)),
                     LoadSystemIncludes(globals, world))

(***************************************************************************)
(* Inputs.                                                                 *)
(***************************************************************************)
s_Wall     == <<"-","W","a","l","l">>
s_include  == <<"i","n","c","l","u","d","e">>
s_abs      == <<"/","o","p","t">>
s_I_rel    == <<"-","I","i","n","c">>
s_I_abs    == <<"-","I","/","o","p","t">>
s_isys_rel == <<"-","i","s","y","s","t","e","m","s","y","s">>
s_iquo_rel == <<"-","i","q","u","o","t","e","q">>
s_sysr_rel == <<"-","-","s","y","s","r","o","o","t","=","s","y","s">>
s_proj     == <<"/","p","r","o","j">>

\* entries a flag list is built from: the empty string, the four bare path flags,
\* the four attached forms, a relative and an absolute path, an attached absolute
\* path and a flag that is no path flag
FlagPool ==
  { Empty, s_isystem, s_I, s_iquote, s_sysroot,
    s_isys_rel, s_I_rel, s_iquo_rel, s_sysr_rel,
    s_include, s_abs, s_I_abs, s_Wall }

ListsUpTo(n) == UNION { [1..k -> FlagPool] : k \in 0..n }

\* the scenario list of the specification's section 8
ScenarioFlags == << s_I, s_include, s_sysr_rel >>

\* working directories handed directly to MakeRelativePathsInFlagsAbsolute:
\* empty, the root, an absolute directory, a relative one
WorkingDirs == { Empty, Slash, s_proj, <<"w","d">> }

\* where the script may live: in the root directory or in /proj
s_conf == <<".","y","c","m","_","e","x","t","r","a","_","c","o","n","f",".","p","y">>
ScriptPaths == { Slash \o s_conf, s_proj \o Slash \o s_conf }

\* the module-level list: the one of the source, the scenario list, and a list
\* without any path flag that holds an empty entry
StaticFlagLists == { flags_literal, ScenarioFlags, << s_Wall, Empty, s_include >> }

t_version == <<"c","l","a","n","g"," ","v","e","r","s","i","o","n"," ","3",".","4","\n">>
t_start   == <<"#","i","n","c","l","u","d","e"," ","<",".",".",".",">"," ","s","e","a","r","c","h",
               " ","s","t","a","r","t","s"," ","h","e","r","e",":","\n">>
t_dir_u   == <<" ","/","u","s","r","/","i","n","c","l","u","d","e","\n">>
t_dir_l   == <<" ","/","u","s","r","/","l","o","c","a","l","/","i","n","c","l","u","d","e","\n">>
t_dir_f   == <<" ","/","L","i","b","r","a","r","y","/","F","r","a","m","e","w","o","r","k","s"," ",
               "(","f","r","a","m","e","w","o","r","k"," ","d","i","r","e","c","t","o","r","y",")","\n">>
t_end     == <<"E","n","d"," ","o","f"," ","s","e","a","r","c","h"," ","l","i","s","t",".","\n">>
t_stdin   == <<"#"," ","1"," ","\"","<","s","t","d","i","n",">","\"","\n">>
t_error   == <<"c","l","a","n","g",":"," ","e","r","r","o","r","\n">>

t_search_list == t_version \o t_start \o t_dir_u \o t_dir_f \o t_dir_l \o t_end

World(found, out, err, rc) == [ found |-> found, out |-> out, err |-> err, returncode |-> rc ]

\* what clang does on this machine: not installed; prints its search list and
\* exits 0; prints its search list and exits 1; prints no search list
ClangWorlds ==
  { World(FALSE, Empty, Empty, 127),
    World(TRUE, t_stdin, t_search_list, 0),
    World(TRUE, Empty, t_search_list \o t_error, 1),
    World(TRUE, Empty, t_version \o t_error, 1) }

\* what the host passes: a file name and the names of the keyword arguments
CallArgs ==
  { << "eris/Simulation.cpp", {} >>,
    << "eris/Simulation.hpp", {} >>,
    << "eris/Simulation.hpp", { "client_data" } >> }

(***************************************************************************)
(* State.                                                                  *)
(***************************************************************************)
VARIABLES
  flags,               \* the module-level list (lines 5-12); also the list a direct call is given
  initial_flags,       \* the entries flags held when the module was imported
  module_globals,      \* the names bound in the module's namespace
  script_abspath,      \* os.path.abspath(__file__)
  clang,               \* what running clang gives on this machine
  pc,                  \* per call: where it is
  filename,            \* per call: FlagsForFile's first argument
  kwargs,              \* per call: the keyword arguments' names
  working_directory,   \* per call: MakeRelativePathsInFlagsAbsolute's second argument
  idx,                 \* per call: the position of the for loop of line 23 (1-based)
  new_flags,           \* per call: the local list of line 20
  make_next_absolute,  \* per call: the local of line 21
  emitted,             \* per call: for each entry read so far, its position in new_flags (0: not appended)
  abs_ret,             \* per call: what MakeRelativePathsInFlagsAbsolute returned
  load_ret,            \* per call: how LoadSystemIncludes ended
  result               \* per call: how FlagsForFile ended

vars == << flags, initial_flags, module_globals, script_abspath, clang, pc, filename, kwargs,
           working_directory, idx, new_flags, make_next_absolute, emitted, abs_ret,
           load_ret, result >>

env == << initial_flags, module_globals, script_abspath, clang >>

NoOutcome == [ kind |-> "none", exc |-> "", value |-> <<>> ]
NoResult  == Result("none", "", <<>>, FALSE)

Locals0 ==
  /\ filename = [ c \in Calls |-> "" ]
  /\ kwargs = [ c \in Calls |-> {} ]
  /\ idx = [ c \in Calls |-> 0 ]
  /\ new_flags = [ c \in Calls |-> <<>> ]
  /\ make_next_absolute = [ c \in Calls |-> FALSE ]
  /\ emitted = [ c \in Calls |-> <<>> ]
  /\ abs_ret = [ c \in Calls |-> <<>> ]
  /\ load_ret = [ c \in Calls |-> NoOutcome ]
  /\ result = [ c \in Calls |-> NoResult ]

\* the module has been imported; the host has called nothing yet
Init ==
  /\ flags \in StaticFlagLists
  /\ initial_flags = flags
  /\ module_globals = ModuleGlobals
  /\ script_abspath \in ScriptPaths
  /\ clang \in ClangWorlds
  /\ pc = [ c \in Calls |-> "idle" ]
  /\ working_directory = [ c \in Calls |-> Empty ]
  /\ Locals0

\* call 1 is a direct call MakeRelativePathsInFlagsAbsolute(flags, working_directory)
InitAbs ==
  /\ flags \in ListsUpTo(MaxLen) \cup { ScenarioFlags, flags_literal }
  /\ initial_flags = flags
  /\ module_globals = ModuleGlobals
  /\ script_abspath = s_proj \o Slash \o s_conf
  /\ clang = World(FALSE, Empty, Empty, 127)
  /\ pc = [ c \in Calls |-> IF c = 1 THEN "L18" ELSE "idle" ]
  /\ \E wd \in WorkingDirs : working_directory = [ c \in Calls |-> IF c = 1 THEN wd ELSE Empty ]
  /\ Locals0

(***************************************************************************)
(* Steps.                                                                  *)
(***************************************************************************)
\* lines 59-60: the host calls FlagsForFile( fn, **kw ); the arguments of
\* MakeRelativePathsInFlagsAbsolute are evaluated and the call is entered
FlagsForFileCall(c, fn, kw) ==
  /\ pc[c] = "idle"
  /\ filename' = [ filename EXCEPT ![c] = fn ]
  /\ kwargs' = [ kwargs EXCEPT ![c] = kw ]
  /\ working_directory' = [ working_directory EXCEPT ![c] = DirectoryOfThisScript(script_abspath) ]
  /\ pc' = [ pc EXCEPT ![c] = "L18" ]
  /\ UNCHANGED << flags, env, idx, new_flags, make_next_absolute, emitted, abs_ret,
                  load_ret, result >>

\* lines 18-22: the early return of a copy, or the locals of the loop
Enter(c) ==
  /\ pc[c] = "L18"
  /\ IF working_directory[c] = Empty
     THEN /\ abs_ret' = [ abs_ret EXCEPT ![c] = flags ]
          /\ emitted' = [ emitted EXCEPT ![c] = [ k \in 1..Len(flags) |-> k ] ]
          /\ pc' = [ pc EXCEPT ![c] = "ret" ]
          /\ UNCHANGED << idx, new_flags, make_next_absolute >>
     ELSE /\ new_flags' = [ new_flags EXCEPT ![c] = <<>> ]
          /\ make_next_absolute' = [ make_next_absolute EXCEPT ![c] = FALSE ]
          /\ idx' = [ idx EXCEPT ![c] = 1 ]
          /\ emitted' = [ emitted EXCEPT ![c] = <<>> ]
          /\ pc' = [ pc EXCEPT ![c] = "L23" ]
          /\ UNCHANGED abs_ret
  /\ UNCHANGED << flags, env, filename, kwargs, working_directory, load_ret, result >>

\* lines 23-42: one iteration of the loop
Iterate(c) ==
  /\ pc[c] = "L23"
  /\ idx[c] <= Len(flags)
  /\ LET b == LoopBody(flags[idx[c]], make_next_absolute[c], working_directory[c])
         keep == b.new_flag # Empty
     IN /\ new_flags' = [ new_flags EXCEPT ![c] = IF keep THEN Append(@, b.new_flag) ELSE @ ]
        /\ emitted' = [ emitted EXCEPT ![c] =
                          Append(@, IF keep THEN Len(new_flags[c]) + 1 ELSE 0) ]
        /\ make_next_absolute' = [ make_next_absolute EXCEPT ![c] = b.make_next_absolute ]
        /\ flags' = ListAfterBody(flags, idx[c], b.new_flag)
  /\ idx' = [ idx EXCEPT ![c] = @ + 1 ]
  /\ UNCHANGED << env, pc, filename, kwargs, working_directory, abs_ret, load_ret, result >>

\* line 43: the list is exhausted; return new_flags
LoopExit(c) ==
  /\ pc[c] = "L23"
  /\ idx[c] > Len(flags)
  /\ abs_ret' = [ abs_ret EXCEPT ![c] = new_flags[c] ]
  /\ pc' = [ pc EXCEPT ![c] = "ret" ]
  /\ UNCHANGED << flags, env, filename, kwargs, working_directory, idx, new_flags,
                  make_next_absolute, emitted, load_ret, result >>

\* line 60, second operand: LoadSystemIncludes() runs to its end
LoadSystemIncludesCall(c) ==
  /\ pc[c] = "ret"
  /\ load_ret' = [ load_ret EXCEPT ![c] = LoadSystemIncludes(module_globals, clang) ]
  /\ pc' = [ pc EXCEPT ![c] = "L60" ]
  /\ UNCHANGED << flags, env, filename, kwargs, working_directory, idx, new_flags,
                  make_next_absolute, emitted, abs_ret, result >>

\* lines 60-64: the + and the returned dict, or the exception passing through
FlagsForFileEnd(c) ==
  /\ pc[c] = "L60"
  /\ result' = [ result EXCEPT ![c] =
                   FlagsForFileResult(filename[c], kwargs[c], abs_ret[c], load_ret[c]) ]
  /\ pc' = [ pc EXCEPT ![c] = "done" ]
  /\ UNCHANGED << flags, env, filename, kwargs, working_directory, idx, new_flags,
                  make_next_absolute, emitted, abs_ret, load_ret >>

\* the host calls FlagsForFile any number of times, the calls interleaved
Next ==
  \E c \in Calls :
    \/ \E a \in CallArgs : FlagsForFileCall(c, a[1], a[2])
    \/ Enter(c)
    \/ Iterate(c)
    \/ LoopExit(c)
    \/ LoadSystemIncludesCall(c)
    \/ FlagsForFileEnd(c)

Spec == Init /\ [][Next]_vars

\* one direct call of MakeRelativePathsInFlagsAbsolute
NextAbs == Enter(1) \/ Iterate(1) \/ LoopExit(1)

SpecAbs == InitAbs /\ [][NextAbs]_vars

(***************************************************************************)
(* Vocabulary of the properties.                                           *)
(***************************************************************************)
PathFlagSet == { path_flags[k] : k \in 1..Len(path_flags) }

IsAbsolutePath(s) == StartsWith(s, Slash)

\* the entry is a path flag with its path attached: prefix + R, R non-empty
IsAttached(s) == \E pf \in PathFlagSet : StartsWith(s, pf) /\ s # pf
PrefixOf(s) == CHOOSE pf \in PathFlagSet : StartsWith(s, pf) /\ s # pf
RestOf(s) == SubSeq(s, Len(PrefixOf(s)) + 1, Len(s))

\* no entry equals or starts with a path flag
NoPathFlagEntries(fl) ==
  \A k \in 1..Len(fl) : \A pf \in PathFlagSet : ~StartsWith(fl[k], pf)

\* W and a relative path P put together: one separator between them, none
\* added when W already ends in one
Joined(W, P) == IF EndsWith(W, Slash) THEN W \o P ELSE W \o Slash \o P

\* the direct call of MakeRelativePathsInFlagsAbsolute has returned
AbsDone == pc[1] = "ret"
AbsIn == initial_flags
AbsOut == abs_ret[1]
AbsWd == working_directory[1]
\* the output entry emitted for input entry k is X
EmittedAs(k, X) == emitted[1][k] # 0 /\ AbsOut[emitted[1][k]] = X

\* the output holds one entry per emitted input entry, in the input's order
OrderKept ==
  /\ Len(AbsOut) = Cardinality({ k \in 1..Len(AbsIn) : emitted[1][k] # 0 })
  /\ \A j, k \in 1..Len(AbsIn) :
       (j < k /\ emitted[1][j] # 0 /\ emitted[1][k] # 0) => emitted[1][j] < emitted[1][k]

Done(c) == pc[c] = "done"
Loaded(c) == pc[c] \in { "L60", "done" }

\* the two markers as the specification writes them
marker_start ==
  <<"#","i","n","c","l","u","d","e"," ","<",".",".",".",">"," ","s","e","a","r","c","h",
    " ","s","t","a","r","t","s"," ","h","e","r","e",":">>
marker_end == <<"E","n","d"," ","o","f"," ","s","e","a","r","c","h"," ","l","i","s","t">>

ClangOutput == clang.out \o clang.err

\* the start marker occurs and the end marker occurs after it
HasMarkers(output) ==
  LET s == FindFrom(output, marker_start, 1) IN
  s # 0 /\ FindFrom(output, marker_end, s + Len(marker_start)) # 0

\* the text between the first start marker and the first end marker after it
BetweenMarkers(output) ==
  LET from == FindFrom(output, marker_start, 1) + Len(marker_start) IN
  SubSeq(output, from, FindFrom(output, marker_end, from) - 1)

\* the errors that come from running the tool: it cannot be started, or its
\* output holds no search list
ToolInvocationErrors == { "OSError", "AttributeError" }

(***************************************************************************)
(* C1.                                                                     *)
(***************************************************************************)
\* C1 (as claimed): for a non-empty absolute working directory W, the entry P
\* directly after a bare -I is emitted as W + "/" + P when P is relative (also
\* when P itself begins with a path flag), and unchanged when P starts with "/".
C1_AsClaimed ==
  (AbsDone /\ AbsWd # Empty /\ IsAbsolutePath(AbsWd)) =>
    \A k \in 2..Len(AbsIn) :
      AbsIn[k-1] = s_I =>
        EmittedAs(k, IF IsAbsolutePath(AbsIn[k]) THEN AbsIn[k]
                     ELSE AbsWd \o Slash \o AbsIn[k])

\* C1 (amended): for a non-empty absolute working directory W, the entry P
\* directly after a bare -I is emitted unchanged when P starts with "/"; as
\* prefix + join(W, R) when P is a path flag prefix followed by a non-empty R
\* (R itself when R starts with "/"); and otherwise as W and P joined by one
\* "/" (no "/" is added when W already ends in one, as W = "/" does).
C1_AfterBareI ==
  (AbsDone /\ AbsWd # Empty /\ IsAbsolutePath(AbsWd)) =>
    \A k \in 2..Len(AbsIn) :
      AbsIn[k-1] = s_I =>
        LET P == AbsIn[k] IN
        EmittedAs(k,
          IF IsAbsolutePath(P) THEN P
          ELSE IF IsAttached(P)
               THEN PrefixOf(P) \o (IF IsAbsolutePath(RestOf(P)) THEN RestOf(P)
                                    ELSE Joined(AbsWd, RestOf(P)))
               ELSE Joined(AbsWd, P))

\* a relative path directly after a bare -I went through the call, an attached
\* -I path before them
C1_Witness ==
  /\ AbsDone
  /\ AbsWd = s_proj
  /\ AbsIn = << s_I_rel, s_I, s_include >>
  /\ EmittedAs(3, s_proj \o Slash \o s_include)

(***************************************************************************)
(* C3.                                                                     *)
(***************************************************************************)
\* C3 (as claimed): with a non-empty working directory, an entry directly after
\* a bare path flag that is empty or absolute is emitted unchanged.
C3_AsClaimed ==
  (AbsDone /\ AbsWd # Empty) =>
    \A k \in 2..Len(AbsIn) :
      (AbsIn[k-1] \in PathFlagSet /\ (AbsIn[k] = Empty \/ IsAbsolutePath(AbsIn[k])))
        => EmittedAs(k, AbsIn[k])

\* C3 (amended): with a non-empty working directory W, an absolute entry
\* directly after a bare path flag is emitted unchanged; an empty entry there is
\* emitted as join(W, ""): W followed by "/" (W itself when it ends in "/").
C3_AfterBareFlag ==
  (AbsDone /\ AbsWd # Empty) =>
    \A k \in 2..Len(AbsIn) :
      AbsIn[k-1] \in PathFlagSet =>
        /\ IsAbsolutePath(AbsIn[k]) => EmittedAs(k, AbsIn[k])
        /\ AbsIn[k] = Empty => EmittedAs(k, Joined(AbsWd, Empty))

\* an empty entry directly after a bare --sysroot= went through the call and
\* came out as the working directory followed by "/"
C3_Witness ==
  /\ AbsDone
  /\ AbsWd = s_proj
  /\ \E k \in 2..Len(AbsIn) :
       AbsIn[k-1] = s_sysroot /\ AbsIn[k] = Empty /\ EmittedAs(k, s_proj \o Slash)

(***************************************************************************)
(* C4.                                                                     *)
(***************************************************************************)
C4_Shape(k) ==
  /\ OrderKept
  /\ (k < Len(AbsIn) /\ AbsIn[k+1] # Empty /\ \A pf \in PathFlagSet : ~StartsWith(AbsIn[k+1], pf))
       => EmittedAs(k + 1, AbsIn[k+1])

\* C4 (as claimed): with a non-empty working directory W, an entry prefix + R
\* (R non-empty and relative) is emitted as the one entry prefix + W + "/" + R,
\* in place, and the entry after it is not treated as a path.
C4_AsClaimed ==
  (AbsDone /\ AbsWd # Empty) =>
    \A k \in 1..Len(AbsIn) :
      (IsAttached(AbsIn[k]) /\ ~IsAbsolutePath(RestOf(AbsIn[k]))) =>
        /\ EmittedAs(k, PrefixOf(AbsIn[k]) \o AbsWd \o Slash \o RestOf(AbsIn[k]))
        /\ C4_Shape(k)

\* C4 (amended): with a non-empty working directory W, an entry prefix + R
\* (R non-empty and relative) is emitted as the one entry prefix + join(W, R):
\* prefix + W + "/" + R when W does not end in "/", prefix + W + R when it does;
\* in place, and the entry after it is not treated as a path.  The scenario
\* ["-I", "include", "--sysroot=sys"] with /proj gives
\* ["-I", "/proj/include", "--sysroot=/proj/sys"].
C4_Attached ==
  (AbsDone /\ AbsWd # Empty) =>
    /\ \A k \in 1..Len(AbsIn) :
         (IsAttached(AbsIn[k]) /\ ~IsAbsolutePath(RestOf(AbsIn[k]))) =>
           /\ EmittedAs(k, PrefixOf(AbsIn[k]) \o Joined(AbsWd, RestOf(AbsIn[k])))
           /\ C4_Shape(k)
    /\ (AbsIn = ScenarioFlags /\ AbsWd = s_proj) =>
         AbsOut = << s_I, s_proj \o Slash \o s_include,
                     s_sysroot \o s_proj \o Slash \o <<"s","y","s">> >>

\* the scenario of the specification has run
C4_Witness ==
  /\ AbsDone
  /\ AbsWd = s_proj
  /\ AbsIn = ScenarioFlags
  /\ Len(AbsOut) = 3
  /\ AbsOut[3] = s_sysroot \o s_proj \o Slash \o <<"s","y","s">>

(***************************************************************************)
(* C2, C5, C6, C8: statements about what FlagsForFile and                  *)
(* LoadSystemIncludes return.                                              *)
(***************************************************************************)
\* C2 (as claimed): for a static list without path flag entries, a finished
\* FlagsForFile call has returned exactly that list, entry for entry (empty
\* entries included), followed by the discovered system include flags.
C2_AsClaimed ==
  \A c \in Calls :
    (Done(c) /\ NoPathFlagEntries(initial_flags)) =>
      /\ result[c].kind = "return"
      /\ load_ret[c].kind = "return"
      /\ result[c].flags = initial_flags \o load_ret[c].value

\* C5 (as claimed): a finished FlagsForFile call has an output, and running
\* FlagsForFile with that output as the static list gives the same output.
C5_AsClaimed ==
  \A c \in Calls :
    Done(c) =>
      /\ result[c].kind = "return"
      /\ FlagsForFile(filename[c], kwargs[c], result[c].flags, script_abspath,
                      module_globals, clang) = result[c]

\* C6 (as claimed): when clang's output holds the start marker and, after it,
\* the end marker, LoadSystemIncludes returns the pairs ("-isystem", L) for the
\* trimmed, non-empty, non-framework lines L between the two markers, in order.
C6_AsClaimed ==
  \A c \in Calls :
    (Loaded(c) /\ clang.found /\ HasMarkers(ClangOutput)) =>
      /\ load_ret[c].kind = "return"
      /\ load_ret[c].value = IncludesOf(SplitLines(BetweenMarkers(ClangOutput)))
      /\ Len(load_ret[c].value) % 2 = 0
      /\ \A k \in 1..Len(load_ret[c].value) : k % 2 = 1 => load_ret[c].value[k] = s_isystem

\* C8 (as claimed): when the clang process exits with a non-zero status,
\* LoadSystemIncludes fails with a tool invocation error and returns no list,
\* also when the output holds both markers.
C8_AsClaimed ==
  \A c \in Calls :
    (Loaded(c) /\ clang.found /\ clang.returncode # 0) =>
      /\ load_ret[c].kind = "raise"
      /\ load_ret[c].exc \in ToolInvocationErrors

(***************************************************************************)
(* C7.                                                                     *)
(***************************************************************************)
\* C7: when the compiler is not started (it is not found, or the call never
\* gets to start it) or its output lacks a marker, LoadSystemIncludes ends in
\* an error, and FlagsForFile ends in that same error: it returns nothing,
\* neither a partial list nor the static flags.
C7_ErrorSurfaces ==
  \A c \in Calls :
    /\ (Loaded(c) /\ ("subprocess" \notin module_globals \/ ~clang.found
                      \/ ~HasMarkers(ClangOutput)))
         => load_ret[c].kind = "raise"
    /\ (Done(c) /\ load_ret[c].kind = "raise")
         => result[c] = Result("raise", load_ret[c].exc, <<>>, FALSE)

\* a call ended in an error on a machine without clang, after the static flags
\* had been made absolute
C7_Witness ==
  \E c \in Calls :
    /\ Done(c)
    /\ ~clang.found
    /\ abs_ret[c] # <<>>
    /\ load_ret[c].kind = "raise"
    /\ result[c].kind = "raise"

(***************************************************************************)
(* C9.                                                                     *)
(***************************************************************************)
\* C9: whatever calls have run or are running, the module-level list holds its
\* initial entries in their initial order, and every call computes and ends
\* with what a call running alone computes and ends with.
C9_NoSharedMutation ==
  /\ flags = initial_flags
  /\ \A c \in Calls :
       /\ pc[c] \in { "ret", "L60", "done" } =>
            abs_ret[c] = MakeRelativePathsInFlagsAbsolute(
                           initial_flags, DirectoryOfThisScript(script_abspath))
       /\ Done(c) =>
            result[c] = FlagsForFile(filename[c], kwargs[c], initial_flags, script_abspath,
                                     module_globals, clang)

\* one call is in the middle of its loop, having rewritten a path, while
\* another one, started meanwhile, has ended
C9_Witness ==
  \E c1, c2 \in Calls :
    /\ c1 # c2
    /\ Done(c1)
    /\ pc[c2] = "L23"
    /\ idx[c2] > 1 /\ idx[c2] <= Len(flags)
    /\ new_flags[c2] # SubSeq(flags, 1, Len(new_flags[c2]))
    /\ flags = flags_literal

(***************************************************************************)
(* C10.                                                                    *)
(***************************************************************************)
\* C10: two calls on the same machine end the same way whatever file names
\* and keyword arguments they are given: they compute the same absolute flag
\* list and end with the same outcome; a call that returns returns do_cache true.
C10_FileNameIgnored ==
  \A c1, c2 \in Calls :
    /\ (pc[c1] \in { "ret", "L60", "done" } /\ pc[c2] \in { "ret", "L60", "done" })
         => abs_ret[c1] = abs_ret[c2]
    /\ (Done(c1) /\ Done(c2)) => result[c1] = result[c2]
    /\ (Done(c1) /\ result[c1].kind = "return") => result[c1].do_cache

\* two calls with different file names and keyword arguments have both ended
C10_Witness ==
  \E c1, c2 \in Calls :
    /\ Done(c1) /\ Done(c2)
    /\ filename[c1] # filename[c2]
    /\ kwargs[c1] # kwargs[c2]
    /\ abs_ret[c1] # <<>>
    /\ result[c1] = result[c2]

====
